---- MODULE Spec2Model ----
(***************************************************************************)
(* Expense tracker (src/Expense_tracker.py): the CSV store (load_expenses, *)
(* save_expense, remove_expense), the filter (filter_expenses) and the     *)
(* Streamlit script main(), one script run per user interaction.           *)
(*                                                                         *)
(* Text is modelled as sequences of one-character strings, so that the     *)
(* CSV round trip (to_csv, then read_csv with its NA tokens and its        *)
(* per-column type inference) and the case-insensitive match are computed. *)
(* Amounts are whole numbers of currency units and dates are day numbers;  *)
(* their texts are abstracted to "num" (a parseable text of that value),   *)
(* "bad" (an unparseable text) and "empty".                                *)
(***************************************************************************)
EXTENDS Integers, Sequences, FiniteSets, TLC

VARIABLES
    csv,        \* expenses.csv: [exists, lines], lines = the records after the header
    expenses,   \* main's variable `expenses` at the end of the script run
    filtered,   \* what the "Apply Filter" branch displayed in this run
    action,     \* which button drove this script run
    loaded,     \* the table loaded at the top of this script run (line 92)
    args,       \* the widget values the action of this run used
    outcome,    \* what the run did: exception raised, messages, calls of save_expense
    csvBefore   \* expenses.csv as it was when this script run began

vars == <<csv, expenses, filtered, action, loaded, args, outcome, csvBefore>>

\* Largest number of records the app's expenses.csv grows to in the model.
MaxRows == 3

\* Largest number of records of a file the filter is applied to (FilterSpec).
MaxFileRows == 2

-----------------------------------------------------------------------------
(* Text *)

DigitChars == <<"0", "1", "2", "3", "4", "5", "6", "7", "8", "9">>
UpperChars == <<"A", "B", "C", "D", "E", "F", "G", "H", "I", "J", "K", "L", "M",
                "N", "O", "P", "Q", "R", "S", "T", "U", "V", "W", "X", "Y", "Z">>
LowerChars == <<"a", "b", "c", "d", "e", "f", "g", "h", "i", "j", "k", "l", "m",
                "n", "o", "p", "q", "r", "s", "t", "u", "v", "w", "x", "y", "z">>

IsDigit(c) == \E i \in 1..Len(DigitChars) : DigitChars[i] = c
DigitVal(c) == (CHOOSE i \in 1..Len(DigitChars) : DigitChars[i] = c) - 1

Lower(c) ==
    IF \E i \in 1..Len(UpperChars) : UpperChars[i] = c
    THEN LowerChars[CHOOSE i \in 1..Len(UpperChars) : UpperChars[i] = c]
    ELSE c

LowerStr(s) == [i \in 1..Len(s) |-> Lower(s[i])]

\* sub occurs in s (a keyword of letters and digits is a literal regular expression)
Contains(s, sub) ==
    \E i \in 0..(Len(s) - Len(sub)) : SubSeq(s, i + 1, i + Len(sub)) = sub

IsIntText(s) == Len(s) > 0 /\ \A i \in 1..Len(s) : IsDigit(s[i])

\* a decimal text with a zero fraction, such as 7.0
IsFloatText(s) ==
    \E p \in 2..(Len(s) - 1) :
        /\ s[p] = "."
        /\ \A i \in 1..(p - 1) : IsDigit(s[i])
        /\ \A i \in (p + 1)..Len(s) : s[i] = "0"

RECURSIVE ParseInt(_)
ParseInt(s) ==
    IF s = <<>> THEN 0
    ELSE ParseInt(SubSeq(s, 1, Len(s) - 1)) * 10 + DigitVal(s[Len(s)])

ParseNumber(s) ==
    IF IsIntText(s) THEN ParseInt(s)
    ELSE ParseInt(SubSeq(s, 1, (CHOOSE p \in 1..Len(s) : s[p] = ".") - 1))

RECURSIVE FormatInt(_)
FormatInt(n) ==
    IF n < 10 THEN <<DigitChars[n + 1]>>
    ELSE Append(FormatInt(n \div 10), DigitChars[(n % 10) + 1])

FormatFloat(n) == FormatInt(n) \o <<".", "0">>

\* The texts pandas.read_csv reads as a missing value by default.
NAValues ==
    { <<>>,
      <<"#", "N", "/", "A">>, <<"#", "N", "/", "A", " ", "N", "/", "A">>,
      <<"#", "N", "A">>, <<"-", "1", ".", "#", "I", "N", "D">>,
      <<"-", "1", ".", "#", "Q", "N", "A", "N">>, <<"-", "N", "a", "N">>,
      <<"-", "n", "a", "n">>, <<"1", ".", "#", "I", "N", "D">>,
      <<"1", ".", "#", "Q", "N", "A", "N">>, <<"<", "N", "A", ">">>,
      <<"N", "/", "A">>, <<"N", "A">>, <<"N", "U", "L", "L">>, <<"N", "a", "N">>,
      <<"N", "o", "n", "e">>, <<"n", "/", "a">>, <<"n", "a", "n">>,
      <<"n", "u", "l", "l">> }

-----------------------------------------------------------------------------
(* Cells of a loaded table *)

StrCell(s) == [k |-> "str", s |-> s, n |-> 0]
NumCell(n) == [k |-> "num", s |-> <<>>, n |-> n]
NACell == [k |-> "na", s |-> <<>>, n |-> 0]

Value(v) == [na |-> FALSE, v |-> v]
Missing == [na |-> TRUE, v |-> 0]

NumText(v) == [k |-> "num", v |-> v]
BadText == [k |-> "bad", v |-> 0]
EmptyText == [k |-> "empty", v |-> 0]

EmptyFrame == [dtype |-> "object", rows |-> <<>>]

-----------------------------------------------------------------------------
(* Store *)

\* pd.read_csv: the dtype it infers for the Description column
InferDtype(texts) ==
    LET present == {i \in 1..Len(texts) : texts[i] \notin NAValues}
    IN  IF Len(texts) = 0 THEN "object"
        ELSE IF \A i \in present : IsIntText(texts[i])
             THEN IF present = 1..Len(texts) THEN "int64" ELSE "float64"
        ELSE IF \A i \in present : IsIntText(texts[i]) \/ IsFloatText(texts[i])
             THEN "float64"
        ELSE "object"

\* pd.read_csv: one Description cell of a column of the given dtype
ParseCell(text, dtype) ==
    IF text \in NAValues THEN NACell
    ELSE IF dtype = "object" THEN StrCell(text)
    ELSE NumCell(ParseNumber(text))

\* pd.to_numeric(errors="coerce") and pd.to_datetime(errors="coerce")
Coerce(text) == IF text.k = "num" THEN Value(text.v) ELSE Missing

load_expenses(c) ==
    IF c.exists
    THEN LET dt == InferDtype([i \in 1..Len(c.lines) |-> c.lines[i].Description])
         IN  [dtype |-> dt,
              rows  |-> [i \in 1..Len(c.lines) |->
                           [Description |-> ParseCell(c.lines[i].Description, dt),
                            Amount      |-> Coerce(c.lines[i].Amount),
                            Date        |-> Coerce(c.lines[i].Date)]]]
    ELSE EmptyFrame

\* DataFrame.to_csv: the text of one Description cell
FormatCell(cell, dtype) ==
    IF cell.k = "na" THEN <<>>
    ELSE IF cell.k = "str" THEN cell.s
    ELSE IF dtype = "float64" THEN FormatFloat(cell.n)
    ELSE FormatInt(cell.n)

\* DataFrame.to_csv: the text of an Amount or a Date cell
FormatValue(x) == IF x.na THEN EmptyText ELSE NumText(x.v)

to_csv(frame) ==
    [i \in 1..Len(frame.rows) |->
        [Description |-> FormatCell(frame.rows[i].Description, frame.dtype),
         Amount      |-> FormatValue(frame.rows[i].Amount),
         Date        |-> FormatValue(frame.rows[i].Date)]]

save_expense(c, description, amount, date) ==
    LET new_data == <<[Description |-> description,
                       Amount      |-> NumText(amount),
                       Date        |-> NumText(date)]>>
    IN  IF c.exists
        THEN [exists |-> TRUE, lines |-> c.lines \o new_data]
        ELSE [exists |-> TRUE, lines |-> new_data]

\* the rows before the one labelled index (a slice in place of a drop)
DropFrom(rows, index) == SubSeq(rows, 1, index)

\* DataFrame.drop(index) on a RangeIndex: the rows but the one labelled index
Drop(rows, index) ==
    SubSeq(rows, 1, index) \o SubSeq(rows, index + 2, Len(rows))

remove_expense(c, index) ==
    LET e == load_expenses(c)
    IN  IF index \notin 0..(Len(e.rows) - 1)
        THEN [raised |-> "KeyError", csv |-> c]
        ELSE [raised |-> "none",
              csv    |-> [exists |-> TRUE,
                          lines  |-> to_csv([dtype |-> e.dtype,
                                             rows  |-> Drop(e.rows, index)])]]

-----------------------------------------------------------------------------
(* Filter *)

\* Series.str.contains(description_filter, case=False, na=False) on one cell
DescriptionMatch(cell, description_filter) ==
    /\ cell.k = "str"
    /\ Contains(LowerStr(cell.s), LowerStr(description_filter))

AmountKeepStrict(x, amount_filter) == ~x.na /\ x.v < amount_filter

\* filtered_expenses['Amount'] <= amount_filter on one cell (NaN compares false)
AmountKeep(x, amount_filter) == ~x.na /\ x.v <= amount_filter

\* (Date >= start_date) & (Date <= end_date) on one cell (NaT compares false)
DateKeep(x, date_range) ==
    ~x.na /\ x.v >= date_range[1] /\ x.v <= date_range[2]

Raise(frame, exception) == [raised |-> exception, dtype |-> frame.dtype, rows |-> <<>>]
Return(frame) == [raised |-> "none", dtype |-> frame.dtype, rows |-> frame.rows]

\* As filter_expenses, with the amount mask taken from the unfiltered frame and
\* applied by position to the rows the description filter kept.
filter_expenses_stale_mask(frame, description_filter, amount_filter, date_range) ==
    LET ByDescription(r) == DescriptionMatch(r.Description, description_filter)
        ByDate(r) == DateKeep(r.Date, date_range)
        f1 == IF description_filter # <<>>
              THEN SelectSeq(frame.rows, ByDescription) ELSE frame.rows
        kept == {i \in 1..Len(f1) : AmountKeep(frame.rows[i].Amount, amount_filter)}
        ByPosition(r) == \E i \in kept : f1[i] = r
        f2 == IF amount_filter > 0 THEN SelectSeq(f1, ByPosition) ELSE f1
        f3 == IF date_range # <<>> /\ Len(date_range) = 2
              THEN SelectSeq(f2, ByDate) ELSE f2
    IN  IF description_filter # <<>> /\ frame.dtype # "object"
        THEN Raise(frame, "AttributeError")
        ELSE Return([dtype |-> frame.dtype, rows |-> f3])

\* As filter_expenses, with the Description column lower-cased for the match.
filter_expenses_lowered(frame, description_filter, amount_filter, date_range) ==
    LET ByDescription(r) == DescriptionMatch(r.Description, description_filter)
        ByAmount(r) == AmountKeep(r.Amount, amount_filter)
        ByDate(r) == DateKeep(r.Date, date_range)
        low == [i \in 1..Len(frame.rows) |->
                  IF frame.rows[i].Description.k = "str"
                  THEN [frame.rows[i] EXCEPT
                          !.Description = StrCell(LowerStr(frame.rows[i].Description.s))]
                  ELSE frame.rows[i]]
        f1 == IF description_filter # <<>>
              THEN SelectSeq(low, ByDescription) ELSE frame.rows
        f2 == IF amount_filter > 0 THEN SelectSeq(f1, ByAmount) ELSE f1
        f3 == IF date_range # <<>> /\ Len(date_range) = 2
              THEN SelectSeq(f2, ByDate) ELSE f2
    IN  IF description_filter # <<>> /\ frame.dtype # "object"
        THEN Raise(frame, "AttributeError")
        ELSE Return([dtype |-> frame.dtype, rows |-> f3])

\* The .str accessor raises AttributeError on a column that is not of dtype object.
filter_expenses(frame, description_filter, amount_filter, date_range) ==
    LET ByDescription(r) == DescriptionMatch(r.Description, description_filter)
        ByAmount(r) == AmountKeep(r.Amount, amount_filter)
        ByDate(r) == DateKeep(r.Date, date_range)
        f1 == IF description_filter # <<>>
              THEN SelectSeq(frame.rows, ByDescription) ELSE frame.rows
        f2 == IF amount_filter > 0 THEN SelectSeq(f1, ByAmount) ELSE f1
        f3 == IF date_range # <<>> /\ Len(date_range) = 2
              THEN SelectSeq(f2, ByDate) ELSE f2
    IN  IF description_filter # <<>> /\ frame.dtype # "object"
        THEN Raise(frame, "AttributeError")
        ELSE Return([dtype |-> frame.dtype, rows |-> f3])

\* filter_expenses on the outcome of an earlier call: an exception propagates
FilterAgain(result, description_filter, amount_filter, date_range) ==
    IF result.raised # "none" THEN result
    ELSE filter_expenses([dtype |-> result.dtype, rows |-> result.rows],
                         description_filter, amount_filter, date_range)

-----------------------------------------------------------------------------
(* Widget values *)

Rent == <<"R", "e", "n", "t">>
NA == <<"N", "A">>
ZeroZeroSeven == <<"0", "0", "7">>

\* st.text_input("Description")
Descriptions == {<<>>, Rent, NA, ZeroZeroSeven}
\* st.number_input("Amount", min_value=0.0)
Amounts == {0, 5}
\* st.date_input("Date")
Dates == {1}
\* st.text_input("Filter by Description")
DescriptionFilters == {<<>>, <<"E", "N">>}
\* st.number_input("Filter by Maximum Amount", min_value=0.0)
AmountFilters == {0, 5}
\* st.date_input("Filter by Date Range", [])
DateRanges == {<<>>, <<1>>, <<1, 1>>, <<1, 2>>}

NoArgs ==
    [index |-> 0, description |-> <<>>, amount |-> 0, date |-> 0,
     description_filter |-> <<>>, amount_filter |-> 0, date_range |-> <<>>]

Quiet == [raised |-> "none", message |-> "none", saves |-> 0]

-----------------------------------------------------------------------------
(* main(): one script run per interaction *)

SelectboxOptionsOffByOne(frame) == 0..Len(frame.rows)

\* st.selectbox("Select an expense to remove", expenses.index)
SelectboxOptions(frame) == 0..(Len(frame.rows) - 1)

ValidEither(description, amount) == description # <<>> \/ amount > 0

\* if description and amount > 0
Valid(description, amount) == description # <<>> /\ amount > 0

\* A rerun with no button pressed: load and display.
Render ==
    /\ action' = "render"
    /\ csvBefore' = csv
    /\ loaded' = load_expenses(csv)
    /\ expenses' = load_expenses(csv)
    /\ args' = NoArgs
    /\ outcome' = Quiet
    /\ filtered' = EmptyFrame
    /\ UNCHANGED csv

\* "Remove Expense" pressed with selected_expense chosen in the selectbox.
RunRemove(selected_expense) ==
    LET e == load_expenses(csv)
        r == remove_expense(csv, selected_expense)
    IN  /\ Len(e.rows) > 0
        /\ selected_expense \in SelectboxOptions(e)
        /\ action' = "remove"
        /\ csvBefore' = csv
        /\ loaded' = e
        /\ args' = [NoArgs EXCEPT !.index = selected_expense]
        /\ csv' = r.csv
        /\ outcome' = [raised  |-> r.raised,
                       message |-> IF r.raised = "none" THEN "success" ELSE "none",
                       saves   |-> 0]
        /\ expenses' = IF r.raised = "none" THEN load_expenses(r.csv) ELSE e
        /\ filtered' = EmptyFrame

\* "Add Expense" pressed.
RunAdd(description, amount, date) ==
    LET e == load_expenses(csv)
        ok == Valid(description, amount)
        c == save_expense(csv, description, amount, date)
    IN  /\ ok => Len(csv.lines) < MaxRows
        /\ action' = "add"
        /\ csvBefore' = csv
        /\ loaded' = e
        /\ args' = [NoArgs EXCEPT !.description = description,
                                  !.amount = amount, !.date = date]
        /\ csv' = IF ok THEN c ELSE csv
        /\ outcome' = [raised  |-> "none",
                       message |-> IF ok THEN "success" ELSE "error",
                       saves   |-> IF ok THEN 1 ELSE 0]
        /\ expenses' = IF ok THEN load_expenses(c) ELSE e
        /\ filtered' = EmptyFrame

\* "Apply Filter" pressed.
RunFilter(description_filter, amount_filter, date_range) ==
    LET e == load_expenses(csv)
        r == filter_expenses(e, description_filter, amount_filter, date_range)
    IN  /\ action' = "filter"
        /\ csvBefore' = csv
        /\ loaded' = e
        /\ args' = [NoArgs EXCEPT !.description_filter = description_filter,
                                  !.amount_filter = amount_filter,
                                  !.date_range = date_range]
        /\ outcome' = [raised |-> r.raised, message |-> "none", saves |-> 0]
        /\ expenses' = e
        /\ filtered' = [dtype |-> r.dtype, rows |-> r.rows]
        /\ UNCHANGED csv

NoFile == [exists |-> FALSE, lines |-> <<>>]

Start(c) ==
    /\ csv = c
    /\ csvBefore = c
    /\ expenses = load_expenses(c)
    /\ loaded = load_expenses(c)
    /\ filtered = EmptyFrame
    /\ action = "start"
    /\ args = NoArgs
    /\ outcome = Quiet

\* The app starts with no expenses.csv.
Init == Start(NoFile)

Next ==
    \/ Render
    \/ \E i \in 0..MaxRows : RunRemove(i)
    \/ \E d \in Descriptions, a \in Amounts, t \in Dates : RunAdd(d, a, t)
    \/ \E d \in DescriptionFilters, a \in AmountFilters, r \in {<<>>, <<1, 1>>} :
          RunFilter(d, a, r)

Spec == Init /\ [][Next]_vars

-----------------------------------------------------------------------------
(* The filter on every table load_expenses can return for a file of at most  *)
(* MaxFileRows records, malformed cells included.                            *)

DescriptionTexts == {Rent, NA, ZeroZeroSeven}
\* the Amount and Date texts of a line: well-formed ones and malformed ones
AmountDateTexts ==
    { <<NumText(5), NumText(1)>>, <<NumText(20), NumText(2)>>,
      <<BadText, NumText(1)>>, <<NumText(5), BadText>> }

Lines ==
    {[Description |-> d, Amount |-> p[1], Date |-> p[2]] :
        d \in DescriptionTexts, p \in AmountDateTexts}

Files ==
    {NoFile} \cup
    {[exists |-> TRUE, lines |-> l] : l \in UNION {[1..n -> Lines] : n \in 0..MaxFileRows}}

FilterInit == \E c \in Files : Start(c)

FilterNext ==
    \E d \in DescriptionFilters, a \in AmountFilters, r \in DateRanges :
        RunFilter(d, a, r)

FilterSpec == FilterInit /\ [][FilterNext]_vars

-----------------------------------------------------------------------------
(* Properties *)

\* the record save_expense was given, as a row of a table
SavedRecord ==
    [Description |-> StrCell(args.description),
     Amount      |-> Value(args.amount),
     Date        |-> Value(args.date)]

\* rows with the element at 0-based position index deleted
WithoutPosition(rows, index) ==
    [j \in 1..(Len(rows) - 1) |-> IF j <= index THEN rows[j] ELSE rows[j + 1]]

Removed == action = "remove" /\ outcome.raised = "none"

RemovedRow == loaded.rows[args.index + 1]

\* sub is rows with some elements left out, the rest in their order
IsSubsequence(sub, rows) ==
    \E f \in [1..Len(sub) -> 1..Len(rows)] :
        /\ \A i \in 1..Len(sub) : rows[f[i]] = sub[i]
        /\ \A i \in 1..Len(sub), j \in 1..Len(sub) : i < j => f[i] < f[j]

DescriptionActive == args.description_filter # <<>>
AmountActive == args.amount_filter > 0
DateActive == Len(args.date_range) = 2

SatisfiesDescription(r) ==
    /\ r.Description.k = "str"
    /\ \E i \in 0..(Len(r.Description.s) - Len(args.description_filter)) :
          \A j \in 1..Len(args.description_filter) :
              Lower(r.Description.s[i + j]) = Lower(args.description_filter[j])
SatisfiesAmount(r) == ~r.Amount.na /\ r.Amount.v <= args.amount_filter
SatisfiesDate(r) ==
    ~r.Date.na /\ args.date_range[1] <= r.Date.v /\ r.Date.v <= args.date_range[2]

SatisfiesActive(r) ==
    /\ DescriptionActive => SatisfiesDescription(r)
    /\ AmountActive => SatisfiesAmount(r)
    /\ DateActive => SatisfiesDate(r)

FilterResult ==
    [raised |-> outcome.raised, dtype |-> filtered.dtype, rows |-> filtered.rows]

\* C1: after a save of a valid record, the loaded table is the table loaded
\* before it with the saved record appended as its last row.
SaveThenLoadAppendsRecord ==
    (action = "add" /\ outcome.saves = 1) =>
        /\ Len(expenses.rows) = Len(loaded.rows) + 1
        /\ expenses.rows[Len(expenses.rows)] = SavedRecord
        /\ SubSeq(expenses.rows, 1, Len(loaded.rows)) = loaded.rows

\* C2 as stated: after remove(i) the loaded table has n-1 rows and no row of
\* it equals the row formerly at index i.
RemoveLeavesRowAbsent ==
    Removed =>
        /\ Len(expenses.rows) = Len(loaded.rows) - 1
        /\ \A j \in 1..Len(expenses.rows) : expenses.rows[j] # RemovedRow

\* C2 as amended: after remove(i) the loaded table has n-1 rows, and no row of
\* it equals the row formerly at index i unless the table held another row
\* equal to that row.
RemoveDropsOneRow ==
    Removed =>
        /\ Len(expenses.rows) = Len(loaded.rows) - 1
        /\ (\A j \in 1..Len(loaded.rows) :
                j # args.index + 1 => loaded.rows[j] # RemovedRow)
           => \A j \in 1..Len(expenses.rows) : expenses.rows[j] # RemovedRow

RemoveDropsOneRowWitness ==
    /\ Removed
    /\ Len(loaded.rows) = 3
    /\ args.index = 1
    /\ \A j \in {1, 3} : loaded.rows[j] # RemovedRow

\* C3: an add with an empty description or an amount that is not > 0 is
\* rejected and writes nothing; an add with a non-empty description and an
\* amount > 0 performs exactly one save.
AddValidatesBeforeSaving ==
    action = "add" =>
        IF args.description # <<>> /\ args.amount > 0
        THEN /\ outcome.saves = 1
             /\ outcome.message = "success"
             /\ Len(csv.lines) = Len(csvBefore.lines) + 1
        ELSE /\ outcome.saves = 0
             /\ outcome.message = "error"
             /\ csv = csvBefore
             /\ load_expenses(csv) = loaded

AddValidatesBeforeSavingWitness ==
    /\ action = "add"
    /\ args.description = Rent
    /\ args.amount = 0
    /\ Len(loaded.rows) > 0
    /\ outcome.message = "error"

\* C4: every remove passes an index in range of the table persisted at the
\* call, so that the removal never raises, and no remove happens on an empty
\* table.
RemoveIndexInRange ==
    /\ outcome.raised # "KeyError"
    /\ action = "remove" =>
          /\ Len(load_expenses(csvBefore).rows) > 0
          /\ args.index \in 0..(Len(load_expenses(csvBefore).rows) - 1)

RemoveIndexInRangeWitness ==
    /\ Removed
    /\ Len(loaded.rows) = MaxRows
    /\ args.index = Len(loaded.rows) - 1

\* C5: filtering the result of a filter again with the same criteria gives
\* the same result (an exception of the first call is the outcome of both).
FilterIdempotent ==
    action = "filter" =>
        FilterAgain(FilterResult, args.description_filter, args.amount_filter,
                    args.date_range) = FilterResult

FilterIdempotentWitness ==
    /\ action = "filter"
    /\ outcome.raised = "none"
    /\ DescriptionActive /\ AmountActive /\ DateActive
    /\ Len(filtered.rows) = 1
    /\ Len(loaded.rows) = 2

\* C6: the rows a filter returns are rows of the table, in the table's order,
\* and the table and the file are as they were before the call.
FilterKeepsRowsOfTable ==
    action = "filter" =>
        /\ IsSubsequence(filtered.rows, loaded.rows)
        /\ expenses = loaded
        /\ expenses = load_expenses(csvBefore)
        /\ csv = csvBefore

FilterKeepsRowsOfTableWitness ==
    /\ action = "filter"
    /\ outcome.raised = "none"
    /\ DescriptionActive
    /\ Len(loaded.rows) = 2
    /\ filtered.rows = <<loaded.rows[2]>>

\* C7: a filter returns exactly the rows of the table that satisfy every
\* active criterion.
FilterIsConjunction ==
    action = "filter" =>
        /\ outcome.raised = "none"
        /\ filtered.rows = SelectSeq(loaded.rows, SatisfiesActive)

\* C8: with only the amount criterion supplied, a threshold > 0 keeps exactly
\* the rows with an amount <= threshold, and a threshold <= 0 keeps every row.
AmountFilterInclusive ==
    (action = "filter" /\ ~DescriptionActive /\ ~DateActive) =>
        /\ outcome.raised = "none"
        /\ filtered.rows =
              IF args.amount_filter > 0
              THEN SelectSeq(loaded.rows, SatisfiesAmount)
              ELSE loaded.rows

AmountFilterInclusiveWitness ==
    /\ action = "filter" /\ ~DescriptionActive /\ ~DateActive
    /\ args.amount_filter = 5
    /\ Len(loaded.rows) = 2
    /\ loaded.rows[1].Amount = Value(20)
    /\ loaded.rows[2].Amount = Value(5)
    /\ filtered.rows = <<loaded.rows[2]>>

\* C9: a filter returns a result and never raises, and a row with a missing
\* description, amount or date is in no result of a filter whose criterion on
\* that field is active.
MissingNeverMatches ==
    action = "filter" =>
        /\ outcome.raised = "none"
        /\ \A j \in 1..Len(filtered.rows) :
              /\ DescriptionActive => filtered.rows[j].Description.k # "na"
              /\ AmountActive => ~filtered.rows[j].Amount.na
              /\ DateActive => ~filtered.rows[j].Date.na

\* C10: the table loaded after remove(i) is the table loaded before it with
\* the element at position i deleted.
RemoveChangesOnlyRow ==
    Removed => expenses.rows = WithoutPosition(loaded.rows, args.index)

-----------------------------------------------------------------------------
(* What holds where the properties above fail (invariants of the same        *)
(* specifications) *)

\* FilterSpec: a filter raises exactly when the description filter is non-empty
\* and the Description column of the table is not of dtype object.
RaisesOnlyOnNonTextColumn ==
    action = "filter" =>
        (outcome.raised # "none" <=> (DescriptionActive /\ loaded.dtype # "object"))

\* FilterSpec: whenever a filter returns, it returns exactly the rows that
\* satisfy every active criterion.
ConjunctionWhenReturns ==
    (action = "filter" /\ outcome.raised = "none") =>
        filtered.rows = SelectSeq(loaded.rows, SatisfiesActive)

\* Spec: a removal changes another row only when the inferred type of the
\* Description column changes with it.
RemoveChangesOnlyRowSameDtype ==
    (Removed /\ expenses.dtype = loaded.dtype) =>
        expenses.rows = WithoutPosition(loaded.rows, args.index)

\* Spec: a saved description that is text to read_csv, appended to a table
\* whose Description column is text, is loaded back as saved.
SaveThenLoadPlainText ==
    (action = "add" /\ outcome.saves = 1 /\ args.description = Rent
        /\ loaded.dtype = "object" /\ Len(loaded.rows) > 0)
    => SaveThenLoadAppendsRecord

====
